---------------------------- MODULE Spec2Model ----------------------------
(***************************************************************************)
(* DNS endpoint synthesis of api/v1alpha1/dnsrecord_endpoints.go.          *)
(*                                                                         *)
(* Go strings are sequences of one-character strings, so that the          *)
(* concatenations, the lower-casing, the wildcard stripping and the        *)
(* lexicographic sort of the code are computed and not assumed.            *)
(* *externaldns.Endpoint values live in a heap (a sequence of records);    *)
(* a reference is an index into it, so that in-place updates and aliasing  *)
(* between the caller's DNSRecord and the returned slice are visible.      *)
(***************************************************************************)
EXTENDS Integers, Sequences, FiniteSets, TLC

VARIABLES
    listener,    \* gatewayapiv1.Listener: [hasHostname, hostname]
    gateway,     \* *gatewayapiv1.Gateway: [name, namespace, labels, addresses]
    routing,     \* *Routing: [Strategy, DefaultGeoCode, DefaultWeight, CustomWeights, ClusterID]
    dnsRecord,   \* *DNSRecord: [isNil, endpoints] (endpoints: references into heap)
    heap,        \* the *externaldns.Endpoint objects alive
    ret,         \* what the last GenerateEndpoints call returned (and saw)
    prevRet      \* what the call before it returned, if no input changed in between

vars == <<listener, gateway, routing, dnsRecord, heap, ret, prevRet>>

---------------------------------------------------------------------------
(* Bounds of the model *)

MaxAddresses == 2

---------------------------------------------------------------------------
(* Strings *)

Upper == <<"A","B","C","D","E","F","G","H","I","J","K","L","M",
           "N","O","P","Q","R","S","T","U","V","W","X","Y","Z">>
Lower == <<"a","b","c","d","e","f","g","h","i","j","k","l","m",
           "n","o","p","q","r","s","t","u","v","w","x","y","z">>
Digits == <<"0","1","2","3","4","5","6","7","8","9">>

\* The characters in use, in byte order (Go compares strings bytewise).
Chars == <<"*", "-", ".">> \o Digits \o Upper \o Lower

CharSet == {Chars[i] : i \in DOMAIN Chars}

Code == [c \in CharSet |-> CHOOSE i \in DOMAIN Chars : Chars[i] = c]

LowerOf == [c \in CharSet |->
              IF \E i \in DOMAIN Upper : Upper[i] = c
              THEN Lower[CHOOSE i \in DOMAIN Upper : Upper[i] = c]
              ELSE c]

\* strings.ToLower
ToLower(s) == [i \in DOMAIN s |-> LowerOf[s[i]]]

\* strings.HasPrefix
HasPrefix(s, p) == Len(s) >= Len(p) /\ SubSeq(s, 1, Len(p)) = p

RECURSIVE ReplaceAll(_, _)
\* strings.Replace(s, old, "", -1) for a non-empty old
ReplaceAll(s, old) ==
    IF Len(s) < Len(old) THEN s
    ELSE IF HasPrefix(s, old) THEN ReplaceAll(SubSeq(s, Len(old) + 1, Len(s)), old)
    ELSE <<s[1]>> \o ReplaceAll(Tail(s), old)

RECURSIVE StrLess(_, _)
\* a < b on Go strings
StrLess(a, b) ==
    IF b = <<>> THEN FALSE
    ELSE IF a = <<>> THEN TRUE
    ELSE IF a[1] # b[1] THEN Code[a[1]] < Code[b[1]]
    ELSE StrLess(Tail(a), Tail(b))

RECURSIVE ItoaNat(_)
ItoaNat(n) == IF n < 10 THEN <<Digits[n + 1]>>
              ELSE ItoaNat(n \div 10) \o <<Digits[(n % 10) + 1]>>

\* strconv.Itoa
Itoa(n) == IF n < 0 THEN <<"-">> \o ItoaNat(0 - n) ELSE ItoaNat(n)

RECURSIVE SumCodes(_)
SumCodes(s) == IF s = <<>> THEN 0 ELSE Code[s[1]] + SumCodes(Tail(s))

Base36 == Digits \o Lower

ClusterIDLength == 6

\* hash.ToBase36HashLen(name, l): a deterministic code of l base-36 characters.
ToBase36HashLen(name, l) ==
    [i \in 1..l |-> Base36[((SumCodes(name) * i + Len(name) + i) % 36) + 1]]

getShortCode(name) == ToBase36HashLen(name, ClusterIDLength)

Range(s) == {s[i] : i \in DOMAIN s}

RECURSIVE SeqsUpTo(_, _)
\* the sequences over S of length at most n
SeqsUpTo(S, n) ==
    IF n = 0 THEN {<<>>}
    ELSE LET shorter == SeqsUpTo(S, n - 1)
         IN shorter \cup {Append(s, x) : s \in shorter, x \in S}

---------------------------------------------------------------------------
(* Constants of the package *)

SimpleRoutingStrategy == "simple"
LoadBalancedRoutingStrategy == "loadbalanced"

DefaultTTL == 60
DefaultCnameTTL == 300

ARecordType == "A"
CNAMERecordType == "CNAME"

LabelLBAttributeGeoCode == "kuadrant.io/lb-attribute-geo-code"
CustomWeightLabel == "kuadrant.io/my-custom-weight-attr"

DefaultGeo == <<"d","e","f","a","u","l","t">>
WildcardGeo == <<"*">>
DefaultSetIdentifier == <<"d","e","f","a","u","l","t">>

ProviderSpecificWeight == "weight"
ProviderSpecificGeoCode == "geo-code"
ProviderSpecificHealthCheckID == "health-check-id"

NoError == "nil"
ErrListenerHostname == "listener hostname is empty"
ErrCurrentEndpoints == "require current endpoints"
ErrUnknownRoutingStrategy == "unknown routing strategy"
ErrClusterID == "cluster ID is required"
ErrDefaultWeight == "default weight is required"
ErrDefaultGeoCode == "default geocode is required"
ErrCustomWeightZero == "custom weight cannot be zero"
ErrCustomWeightSelector == "custom weight must define non-empty selector"

---------------------------------------------------------------------------
(* Label selectors (v1.LabelSelector, labels.Selector) *)

\* map lookups on a Go map modelled as a function
Has(m, k) == k \in DOMAIN m

\* One requirement of a compiled selector against a label set.
RequirementMatches(req, labelSet) ==
    CASE req.operator = "In" ->
            Has(labelSet, req.key) /\ labelSet[req.key] \in req.values
      [] req.operator = "NotIn" ->
            ~Has(labelSet, req.key) \/ labelSet[req.key] \notin req.values
      [] req.operator = "Exists" -> Has(labelSet, req.key)
      [] req.operator = "DoesNotExist" -> ~Has(labelSet, req.key)
      [] OTHER -> FALSE

\* Whether v1.LabelSelectorAsSelector returns an error for one expression.
ExpressionInvalid(expr) ==
    CASE expr.operator \in {"In", "NotIn"} -> expr.values = {}
      [] expr.operator \in {"Exists", "DoesNotExist"} -> expr.values # {}
      [] OTHER -> TRUE

\* err != nil of v1.LabelSelectorAsSelector(&selector)
LabelSelectorAsSelectorFails(selector) ==
    \E i \in DOMAIN selector.MatchExpressions.list :
        ExpressionInvalid(selector.MatchExpressions.list[i])

\* selector.Matches(labels.Set(labelSet)) for a selector that compiled:
\* an empty selector is labels.Everything().
SelectorMatches(selector, labelSet) ==
    /\ \A k \in DOMAIN selector.MatchLabels.kv :
          Has(labelSet, k) /\ labelSet[k] = selector.MatchLabels.kv[k]
    /\ \A i \in DOMAIN selector.MatchExpressions.list :
          RequirementMatches(selector.MatchExpressions.list[i], labelSet)

---------------------------------------------------------------------------
(* Routing *)

RECURSIVE ValidateCustomWeights(_)
\* the loop over r.CustomWeights in Validate
ValidateCustomWeights(customWeights) ==
    IF customWeights = <<>> THEN NoError
    ELSE LET customWeight == Head(customWeights)
         IN IF customWeight.Weight = 0 THEN ErrCustomWeightZero
            ELSE IF /\ customWeight.Selector.MatchLabels.isNil
                    /\ DOMAIN customWeight.Selector.MatchLabels.kv = {}
                    /\ customWeight.Selector.MatchExpressions.isNil
                 THEN ErrCustomWeightSelector
            ELSE ValidateCustomWeights(Tail(customWeights))

\* Validate without its check of the default geo code
ValidateWithoutGeoCode(r) ==
    IF r.Strategy = SimpleRoutingStrategy THEN NoError
    ELSE IF r.ClusterID = <<>> THEN ErrClusterID
    ELSE IF r.DefaultWeight = 0 THEN ErrDefaultWeight
    ELSE ValidateCustomWeights(r.CustomWeights)

\* (r Routing) Validate() error
Validate(r) ==
    IF r.Strategy = SimpleRoutingStrategy THEN NoError
    ELSE IF r.ClusterID = <<>> THEN ErrClusterID
    ELSE IF r.DefaultWeight = 0 THEN ErrDefaultWeight
    ELSE IF r.DefaultGeoCode = <<>> THEN ErrDefaultGeoCode
    ELSE ValidateCustomWeights(r.CustomWeights)

\* (rb *RoutingBuilder) Build() (*Routing, error)
Build(rb) == [routing |-> rb, err |-> Validate(rb)]

RECURSIVE getWeightLoop(_, _, _)
getWeightLoop(customWeights, labelSet, weight) ==
    IF customWeights = <<>> THEN weight
    ELSE LET customWeight == Head(customWeights)
         IN IF LabelSelectorAsSelectorFails(customWeight.Selector) THEN weight
            ELSE IF SelectorMatches(customWeight.Selector, labelSet)
                 THEN customWeight.Weight
            ELSE getWeightLoop(Tail(customWeights), labelSet, weight)

\* a weight resolution that passes over the selectors that do not compile
getWeightIgnoringErrors(r, gw) ==
    LET hits == {i \in DOMAIN r.CustomWeights :
                    /\ ~LabelSelectorAsSelectorFails(r.CustomWeights[i].Selector)
                    /\ SelectorMatches(r.CustomWeights[i].Selector, gw.labels)}
    IN IF hits = {} THEN r.DefaultWeight
       ELSE r.CustomWeights[CHOOSE i \in hits : \A j \in hits : i <= j].Weight

\* (r Routing) getWeight(gateway) int
getWeight(r, gw) == getWeightLoop(r.CustomWeights, gw.labels, r.DefaultWeight)

\* getGeoFromLabel(gateway)
getGeoFromLabel(gw) ==
    IF Has(gw.labels, LabelLBAttributeGeoCode)
    THEN gw.labels[LabelLBAttributeGeoCode]
    ELSE DefaultGeo

\* isWildCardHost(host)
isWildCardHost(host) == HasPrefix(host, <<"*">>)

---------------------------------------------------------------------------
(* Endpoints *)

\* &externaldns.Endpoint{}
NewEndpoint == [DNSName |-> <<>>, Targets |-> <<>>, RecordType |-> "",
                SetIdentifier |-> <<>>, RecordTTL |-> 0, ProviderSpecific |-> <<>>]

\* getSetID(endpoint)
getSetID(endpoint) == endpoint.DNSName \o endpoint.SetIdentifier

\* a property setter that drops the properties the endpoint had
ReplaceProviderSpecific(endpoint, key, value) ==
    [endpoint EXCEPT !.ProviderSpecific = <<[Name |-> key, Value |-> value]>>]

\* a property setter that appends without looking for the key
AppendProviderSpecificProperty(endpoint, key, value) ==
    [endpoint EXCEPT !.ProviderSpecific =
        Append(endpoint.ProviderSpecific, [Name |-> key, Value |-> value])]

\* (e *Endpoint) SetProviderSpecificProperty(key, value): replace the
\* property named key, or append it.
SetProviderSpecificProperty(endpoint, key, value) ==
    LET ps == endpoint.ProviderSpecific
        prop == [Name |-> key, Value |-> value]
    IN IF \E i \in DOMAIN ps : ps[i].Name = key
       THEN [endpoint EXCEPT !.ProviderSpecific =
                [i \in DOMAIN ps |-> IF ps[i].Name = key THEN prop ELSE ps[i]]]
       ELSE [endpoint EXCEPT !.ProviderSpecific = Append(ps, prop)]

\* currentEndpoints of GenerateEndpoints: the map from getSetID to the last
\* endpoint of dnsRecord.Spec.Endpoints with that id.
CurrentEndpoints(h, endpoints) ==
    [id \in {getSetID(h[endpoints[i]]) : i \in DOMAIN endpoints} |->
        endpoints[CHOOSE i \in DOMAIN endpoints :
                     /\ getSetID(h[endpoints[i]]) = id
                     /\ \A j \in DOMAIN endpoints :
                           getSetID(h[endpoints[j]]) = id => j <= i]]

\* createOrUpdateEndpoint: the heap after the call and the reference returned.
createOrUpdateEndpoint(h, dnsName, targets, recordType, setIdentifier, recordTTL, currentEndpoints) ==
    LET endpointID == dnsName \o setIdentifier
        ok == endpointID \in DOMAIN currentEndpoints
        ref == IF ok THEN currentEndpoints[endpointID] ELSE Len(h) + 1
        endpoint == IF ok THEN h[ref]
                    ELSE [NewEndpoint EXCEPT !.SetIdentifier = setIdentifier]
        updated == [endpoint EXCEPT !.DNSName = dnsName,
                                    !.RecordType = recordType,
                                    !.Targets = targets,
                                    !.RecordTTL = recordTTL]
    IN [heap |-> IF ok THEN [h EXCEPT ![ref] = updated] ELSE Append(h, updated),
        ref |-> ref]

\* the partition of gateway.Status.Addresses, in order
IPValues(gw) ==
    LET ip == SelectSeq(gw.addresses, LAMBDA gwa : gwa.Type = "IPAddress")
    IN [i \in DOMAIN ip |-> ip[i].Value]

HostValues(gw) ==
    LET host == SelectSeq(gw.addresses, LAMBDA gwa : gwa.Type # "IPAddress")
    IN [i \in DOMAIN host |-> host[i].Value]

\* endpoint := createOrUpdateEndpoint(...); endpoints = append(endpoints, endpoint)
AppendEndpoint(st, dnsName, targets, recordType, setIdentifier, recordTTL, currentEndpoints) ==
    LET made == createOrUpdateEndpoint(st.heap, dnsName, targets, recordType,
                                       setIdentifier, recordTTL, currentEndpoints)
    IN [heap |-> made.heap, endpoints |-> Append(st.endpoints, made.ref)]

\* endpoint.SetProviderSpecificProperty(key, value) on the endpoint appended last
SetLastProperty(st, key, value) ==
    LET ref == st.endpoints[Len(st.endpoints)]
    IN [st EXCEPT !.heap[ref] = SetProviderSpecificProperty(st.heap[ref], key, value)]

\* if cond { endpoint := createOrUpdateEndpoint(...); endpoints = append(endpoints, endpoint) }
AppendEndpointIf(cond, st, dnsName, targets, recordType, setIdentifier, recordTTL, currentEndpoints) ==
    IF cond
    THEN AppendEndpoint(st, dnsName, targets, recordType, setIdentifier, recordTTL,
                        currentEndpoints)
    ELSE st

\* if cond { endpoint.SetProviderSpecificProperty(key, value) }
SetLastPropertyIf(cond, st, key, value) ==
    IF cond THEN SetLastProperty(st, key, value) ELSE st

\* getSimpleEndpoints
getSimpleEndpoints(h, gw, hostname, currentEndpoints) ==
    AppendEndpointIf(Len(HostValues(gw)) > 0,
        AppendEndpointIf(Len(IPValues(gw)) > 0,
            [heap |-> h, endpoints |-> <<>>],
            hostname, IPValues(gw), ARecordType, <<>>, DefaultTTL, currentEndpoints),
        hostname, HostValues(gw), CNAMERecordType, <<>>, DefaultTTL, currentEndpoints)

RECURSIVE AppendWeighted(_, _, _, _, _)
\* the loop over hostValues in getLoadBalancedEndpoints
AppendWeighted(st, hostValues, geoLbName, weight, currentEndpoints) ==
    IF hostValues = <<>> THEN st
    ELSE LET hostValue == Head(hostValues)
             made == AppendEndpoint(st, geoLbName, <<hostValue>>, CNAMERecordType,
                                    hostValue, DefaultTTL, currentEndpoints)
             weighted == SetLastProperty(made, ProviderSpecificWeight, Itoa(weight))
         IN AppendWeighted(weighted, Tail(hostValues), geoLbName, weight, currentEndpoints)

\* a cnameHost that keeps the wildcard label
CnameHostKeepingWildcard(hostname) == hostname

\* cnameHost of getLoadBalancedEndpoints
CnameHost(hostname) ==
    IF isWildCardHost(hostname) THEN ReplaceAll(hostname, <<"*", ".">>) ELSE hostname

LbName(hostname) == ToLower(<<"k","l","b",".">> \o CnameHost(hostname))

GeoLbName(gw, hostname) == ToLower(getGeoFromLabel(gw) \o <<".">> \o LbName(hostname))

ClusterLbName(gw, r, hostname) ==
    ToLower(getShortCode(r.ClusterID) \o <<"-">>
            \o getShortCode(gw.name \o <<"-">> \o gw.namespace)
            \o <<".">> \o LbName(hostname))

\* hostValues without clusterLbName
HostValuesWithoutCluster(gw, r, hostname) == HostValues(gw)

\* hostValues once clusterLbName is appended to it
WeightedHostValues(gw, r, hostname) ==
    IF Len(IPValues(gw)) > 0
    THEN Append(HostValues(gw), ClusterLbName(gw, r, hostname))
    ELSE HostValues(gw)

\* getLoadBalancedEndpoints up to the loop over hostValues: the A record of
\* clusterLbName and the weighted CNAME records of geoLbName
WeightedLayer(h, gw, r, hostname, currentEndpoints) ==
    AppendWeighted(
        AppendEndpointIf(Len(IPValues(gw)) > 0,
            [heap |-> h, endpoints |-> <<>>],
            ClusterLbName(gw, r, hostname), IPValues(gw), ARecordType, <<>>,
            DefaultTTL, currentEndpoints),
        WeightedHostValues(gw, r, hostname), GeoLbName(gw, hostname), getWeight(r, gw),
        currentEndpoints)

\* the CNAME record of lbName for geoCode
GeoAlias(st, lbName, geoLbName, geoCode, currentEndpoints) ==
    SetLastPropertyIf(geoCode # DefaultGeo,
        AppendEndpoint(st, lbName, <<geoLbName>>, CNAMERecordType, geoCode,
                       DefaultCnameTTL, currentEndpoints),
        ProviderSpecificGeoCode, geoCode)

\* the default geo (*) CNAME record of lbName
DefaultGeoAlias(st, lbName, geoLbName, isDefaultGeo, currentEndpoints) ==
    SetLastPropertyIf(isDefaultGeo,
        AppendEndpointIf(isDefaultGeo, st, lbName, <<geoLbName>>, CNAMERecordType,
                         DefaultSetIdentifier, DefaultCnameTTL, currentEndpoints),
        ProviderSpecificGeoCode, WildcardGeo)

\* a CNAME record of the listener's hostname whose target keeps the wildcard
HostAliasKeepingWildcard(st, hostname, lbName, currentEndpoints) ==
    AppendEndpointIf(Len(st.endpoints) > 0, st, hostname,
                     <<ToLower(<<"k","l","b",".">> \o hostname)>>, CNAMERecordType,
                     <<>>, DefaultCnameTTL, currentEndpoints)

\* the CNAME record of the listener's hostname
HostAlias(st, hostname, lbName, currentEndpoints) ==
    AppendEndpointIf(Len(st.endpoints) > 0, st, hostname, <<lbName>>, CNAMERecordType,
                     <<>>, DefaultCnameTTL, currentEndpoints)

\* the geo layer without the return on an empty endpoints list
GeoLayerWithoutReturn(st, gw, r, hostname, currentEndpoints) ==
    AppendEndpointIf(TRUE,
        DefaultGeoAlias(
            GeoAlias(st, LbName(hostname), GeoLbName(gw, hostname),
                     getGeoFromLabel(gw), currentEndpoints),
            LbName(hostname), GeoLbName(gw, hostname),
            getGeoFromLabel(gw) = r.DefaultGeoCode, currentEndpoints),
        hostname, <<LbName(hostname)>>, CNAMERecordType, <<>>, DefaultCnameTTL,
        currentEndpoints)

\* getLoadBalancedEndpoints after the loop over hostValues
GeoLayer(st, gw, r, hostname, currentEndpoints) ==
    IF Len(st.endpoints) = 0 THEN st
    ELSE HostAlias(
            DefaultGeoAlias(
                GeoAlias(st, LbName(hostname), GeoLbName(gw, hostname),
                         getGeoFromLabel(gw), currentEndpoints),
                LbName(hostname), GeoLbName(gw, hostname),
                getGeoFromLabel(gw) = r.DefaultGeoCode, currentEndpoints),
            hostname, LbName(hostname), currentEndpoints)

\* getLoadBalancedEndpoints
getLoadBalancedEndpoints(h, gw, r, hostname, currentEndpoints) ==
    GeoLayer(WeightedLayer(h, gw, r, hostname, currentEndpoints),
             gw, r, hostname, currentEndpoints)

RECURSIVE InsertSorted(_, _, _)
\* the inner loop of insertion sort: move ref left while it is less
InsertSorted(h, sorted, ref) ==
    IF sorted = <<>> \/ ~StrLess(getSetID(h[ref]), getSetID(h[sorted[Len(sorted)]]))
    THEN Append(sorted, ref)
    ELSE Append(InsertSorted(h, SubSeq(sorted, 1, Len(sorted) - 1), ref),
                sorted[Len(sorted)])

\* the endpoints left in the order of their creation
UnsortedEndpoints(h, endpoints) == endpoints

RECURSIVE SortEndpoints(_, _)
\* sort.Slice(endpoints, getSetID(endpoints[i]) < getSetID(endpoints[j])):
\* for the at most 12 elements of these lists sort.Slice is an insertion sort.
SortEndpoints(h, endpoints) ==
    IF endpoints = <<>> THEN <<>>
    ELSE InsertSorted(h, SortEndpoints(h, SubSeq(endpoints, 1, Len(endpoints) - 1)),
                      endpoints[Len(endpoints)])

\* What a call returns: the error, the slice (nil or not) and the heap it leaves.
Failure(h, err) == [err |-> err, isNil |-> TRUE, endpoints |-> <<>>, heap |-> h]

\* sort.Slice(endpoints, ...); return endpoints, nil
SortedResult(made, declaredNil) ==
    [err |-> NoError,
     isNil |-> declaredNil /\ made.endpoints = <<>>,
     endpoints |-> SortEndpoints(made.heap, made.endpoints),
     heap |-> made.heap]

\* the switch on routing.Strategy of GenerateEndpoints, and what follows it
Dispatch(h, gw, gwListenerHost, r, currentEndpoints) ==
    CASE r.Strategy = SimpleRoutingStrategy ->
            SortedResult(getSimpleEndpoints(h, gw, gwListenerHost, currentEndpoints), TRUE)
      [] r.Strategy = LoadBalancedRoutingStrategy ->
            SortedResult(getLoadBalancedEndpoints(h, gw, r, gwListenerHost,
                                                  currentEndpoints), FALSE)
      [] OTHER -> Failure(h, ErrUnknownRoutingStrategy)

\* the error of validation put on what the synthesis returned
FailAfter(got, err) == IF got.err # NoError THEN got ELSE Failure(got.heap, err)

\* GenerateEndpoints validating the policy after the synthesis
GenerateEndpointsValidatingLate(h, gw, record, lis, r) ==
    IF ~lis.hasHostname THEN Failure(h, ErrListenerHostname)
    ELSE IF record.isNil THEN Failure(h, ErrCurrentEndpoints)
    ELSE IF Validate(r) # NoError
         THEN FailAfter(Dispatch(h, gw, lis.hostname, r,
                                 CurrentEndpoints(h, record.endpoints)), Validate(r))
    ELSE Dispatch(h, gw, lis.hostname, r, CurrentEndpoints(h, record.endpoints))

\* GenerateEndpoints(gateway, dnsRecord, listener, routing)
GenerateEndpoints(h, gw, record, lis, r) ==
    IF ~lis.hasHostname THEN Failure(h, ErrListenerHostname)
    ELSE IF record.isNil THEN Failure(h, ErrCurrentEndpoints)
    ELSE IF Validate(r) # NoError THEN Failure(h, Validate(r))
    ELSE Dispatch(h, gw, lis.hostname, r, CurrentEndpoints(h, record.endpoints))

---------------------------------------------------------------------------
(* The inputs the callers provide *)

IPAddressOne == <<"1", ".", "1">>
IPAddressTwo == <<"1", ".", "2">>
TestHostname == <<"p", ".", "c">>

HostOne == <<"w", ".", "e">>
HostWildcard == <<"*", ".", "w", ".", "e">>

GeoIE == <<"I", "E">>
GeoES == <<"E", "S">>
FOO == <<"F", "O", "O">>
TestClusterID == <<"c", "1">>

Listeners == {[hasHostname |-> FALSE, hostname |-> <<>>],
              [hasHostname |-> TRUE, hostname |-> HostOne],
              [hasHostname |-> TRUE, hostname |-> HostWildcard]}

AddressPool == {[Type |-> "IPAddress", Value |-> IPAddressOne],
                [Type |-> "IPAddress", Value |-> IPAddressTwo],
                [Type |-> "Hostname", Value |-> TestHostname]}

AddressLists == SeqsUpTo(AddressPool, MaxAddresses)

NoLabels == [k \in {} |-> <<>>]

FooLabels == [k \in {LabelLBAttributeGeoCode, CustomWeightLabel} |->
                 IF k = LabelLBAttributeGeoCode THEN GeoIE ELSE FOO]

LabelSets == {NoLabels,
              [k \in {LabelLBAttributeGeoCode} |-> GeoIE],
              [k \in {LabelLBAttributeGeoCode} |-> GeoES]}

Gateways == {[name |-> <<"g">>, namespace |-> <<"n">>, labels |-> l, addresses |-> a] :
                l \in LabelSets, a \in AddressLists}

NilMap == [isNil |-> TRUE, kv |-> NoLabels]
NilExpressions == [isNil |-> TRUE, list |-> <<>>]

\* metav1.LabelSelector{}
NoSelector == [MatchLabels |-> NilMap, MatchExpressions |-> NilExpressions]

\* MatchLabels: map[string]string{} (present, with no entry)
EmptyMapSelector ==
    [MatchLabels |-> [isNil |-> FALSE, kv |-> NoLabels], MatchExpressions |-> NilExpressions]

FooSelector ==
    [MatchLabels |-> [isNil |-> FALSE, kv |-> [k \in {CustomWeightLabel} |-> FOO]],
     MatchExpressions |-> NilExpressions]

GeoESSelector ==
    [MatchLabels |-> NilMap,
     MatchExpressions |-> [isNil |-> FALSE,
        list |-> <<[key |-> LabelLBAttributeGeoCode, operator |-> "In", values |-> {GeoES}]>>]]

\* an expression LabelSelectorAsSelector rejects: In with no value
BrokenSelector ==
    [MatchLabels |-> NilMap,
     MatchExpressions |-> [isNil |-> FALSE,
        list |-> <<[key |-> CustomWeightLabel, operator |-> "In", values |-> {}]>>]]

\* NewRoutingBuilder(): &Routing{}
ZeroRouting == [Strategy |-> "", DefaultGeoCode |-> <<>>, DefaultWeight |-> 0,
                CustomWeights |-> <<>>, ClusterID |-> <<>>]

WithSimpleStrategy(rb) == [rb EXCEPT !.Strategy = SimpleRoutingStrategy]

WithLoadBalancedStrategy(rb, clusterID, defaultGeo, defaultWeight) ==
    [rb EXCEPT !.Strategy = LoadBalancedRoutingStrategy,
               !.ClusterID = clusterID,
               !.DefaultGeoCode = defaultGeo,
               !.DefaultWeight = defaultWeight]

WithCustomWeights(rb, weights) == [rb EXCEPT !.CustomWeights = weights]

TestRouting == WithLoadBalancedStrategy(ZeroRouting, TestClusterID, GeoIE, 12)

\* the policies of the reconciliation runs
Routings ==
    {WithSimpleStrategy(ZeroRouting),
     TestRouting,
     [TestRouting EXCEPT !.DefaultGeoCode = DefaultGeo],
     [TestRouting EXCEPT !.ClusterID = <<>>],
     [TestRouting EXCEPT !.Strategy = "cat"],
     [TestRouting EXCEPT !.Strategy = "cat", !.ClusterID = <<>>]}

---------------------------------------------------------------------------
(* The state machine *)

NoCall == [op |-> "none", err |-> NoError, isNil |-> TRUE, endpoints |-> <<>>,
           values |-> <<>>, before |-> <<>>]

\* the endpoints of the DNSRecord are heap[1..Owned]
Owned == Cardinality(Range(dnsRecord.endpoints))

Init ==
    /\ listener \in Listeners
    /\ gateway \in Gateways
    /\ routing \in Routings
    /\ dnsRecord \in {[isNil |-> TRUE, endpoints |-> <<>>],
                      [isNil |-> FALSE, endpoints |-> <<>>]}
    /\ heap = <<>>
    /\ ret = NoCall
    /\ prevRet = NoCall

\* ret after a call that found the heap `before` and returned `got`
Returned(before, got) ==
    [op |-> "GenerateEndpoints", err |-> got.err, isNil |-> got.isNil,
     endpoints |-> got.endpoints,
     values |-> [i \in DOMAIN got.endpoints |-> got.heap[got.endpoints[i]]],
     before |-> before]

\* A reconciliation calls GenerateEndpoints with the inputs as they are.
CallGenerateEndpoints ==
    /\ \E got \in {GenerateEndpoints(SubSeq(heap, 1, Owned), gateway, dnsRecord,
                                     listener, routing)} :
          /\ heap' = got.heap
          /\ ret' = Returned(SubSeq(heap, 1, Owned), got)
    /\ prevRet' = IF ret.op = "GenerateEndpoints" THEN ret ELSE NoCall
    /\ UNCHANGED <<listener, gateway, routing, dnsRecord>>

RECURSIVE Distinct(_)
\* a sequence without its repetitions
Distinct(s) ==
    IF s = <<>> THEN <<>>
    ELSE LET front == Distinct(SubSeq(s, 1, Len(s) - 1))
         IN IF s[Len(s)] \in Range(front) THEN front ELSE Append(front, s[Len(s)])

\* The caller stores the returned endpoints in dnsRecord.Spec.Endpoints.
Publish ==
    /\ ret.op = "GenerateEndpoints"
    /\ ret.err = NoError
    /\ ~dnsRecord.isNil
    /\ LET kept == Distinct(ret.endpoints)
           place(ref) == CHOOSE i \in DOMAIN kept : kept[i] = ref
       IN /\ heap' = [i \in DOMAIN kept |-> heap[kept[i]]]
          /\ dnsRecord' = [dnsRecord EXCEPT !.endpoints =
                              [i \in DOMAIN ret.endpoints |-> place(ret.endpoints[i])]]
    /\ ret' = NoCall
    /\ prevRet' = NoCall
    /\ UNCHANGED <<listener, gateway, routing>>

\* The health checks store their ids on the endpoints of the DNSRecord.
AttachHealthCheck ==
    /\ ~dnsRecord.isNil
    /\ ret = NoCall
    /\ \E r \in 1..Owned :
          \A i \in DOMAIN heap[r].ProviderSpecific :
             heap[r].ProviderSpecific[i].Name # ProviderSpecificHealthCheckID
    /\ heap' = [r \in 1..Owned |->
                  SetProviderSpecificProperty(heap[r], ProviderSpecificHealthCheckID,
                                              <<"h", "c">>)]
    /\ ret' = NoCall
    /\ prevRet' = NoCall
    /\ UNCHANGED <<listener, gateway, routing, dnsRecord>>

\* After a publication the gateway's labels change, or it loses its addresses.
ChangeGateway ==
    /\ ~dnsRecord.isNil
    /\ dnsRecord.endpoints # <<>>
    /\ \/ \E l \in LabelSets \ {gateway.labels} : gateway' = [gateway EXCEPT !.labels = l]
       \/ /\ gateway.addresses # <<>>
          /\ gateway' = [gateway EXCEPT !.addresses = <<>>]
    /\ heap' = SubSeq(heap, 1, Owned)
    /\ ret' = NoCall
    /\ prevRet' = NoCall
    /\ UNCHANGED <<listener, routing, dnsRecord>>

\* The policy is edited after a publication (its strategy is immutable).
ChangeRouting ==
    /\ ~dnsRecord.isNil
    /\ dnsRecord.endpoints # <<>>
    /\ \E r \in Routings \ {routing} :
          /\ r.Strategy = routing.Strategy
          /\ routing' = r
    /\ heap' = SubSeq(heap, 1, Owned)
    /\ ret' = NoCall
    /\ prevRet' = NoCall
    /\ UNCHANGED <<listener, gateway, dnsRecord>>

Next ==
    \/ CallGenerateEndpoints
    \/ Publish
    \/ AttachHealthCheck
    \/ ChangeGateway
    \/ ChangeRouting

Spec == Init /\ [][Next]_vars

---------------------------------------------------------------------------
(* Routing policies on their own: every policy of a bounded family is      *)
(* built and used for one gateway.                                         *)

MaxCustomWeights == 2

CustomWeightPool ==
    {[Weight |-> w, Selector |-> sel] :
        w \in {0, 10},
        sel \in {NoSelector, EmptyMapSelector, FooSelector, BrokenSelector}}

AllRoutings ==
    {[Strategy |-> s, DefaultGeoCode |-> g, DefaultWeight |-> w,
      CustomWeights |-> cw, ClusterID |-> c] :
        s \in {SimpleRoutingStrategy, LoadBalancedRoutingStrategy, "cat"},
        g \in {<<>>, GeoIE},
        w \in {-3, 0, 12},
        cw \in SeqsUpTo(CustomWeightPool, MaxCustomWeights),
        c \in {<<>>, TestClusterID}}

InitRouting ==
    /\ listener = [hasHostname |-> TRUE, hostname |-> HostOne]
    /\ gateway \in {[name |-> <<"g">>, namespace |-> <<"n">>, labels |-> l,
                     addresses |-> <<[Type |-> "IPAddress", Value |-> IPAddressOne],
                                     [Type |-> "Hostname", Value |-> TestHostname]>>] :
                       l \in {NoLabels, FooLabels}}
    /\ routing \in AllRoutings
    /\ dnsRecord = [isNil |-> FALSE, endpoints |-> <<>>]
    /\ heap = <<>>
    /\ ret = NoCall
    /\ prevRet = NoCall

\* rb.Build(): the policy is validated when it is built.
BuildRouting ==
    /\ ret' = [NoCall EXCEPT !.op = "Build", !.err = Build(routing).err]
    /\ prevRet' = NoCall
    /\ heap' = SubSeq(heap, 1, Owned)
    /\ UNCHANGED <<listener, gateway, routing, dnsRecord>>

NextRouting == BuildRouting \/ CallGenerateEndpoints

SpecRouting == InitRouting /\ [][NextRouting]_vars

---------------------------------------------------------------------------
(* Properties *)

Called == ret.op = "GenerateEndpoints"
Succeeded == Called /\ ret.err = NoError

\* The invalid conditions of a load-balanced policy, as the documentation
\* of the policy lists them.
InvalidConditions(r) ==
    {c \in {"clusterID", "defaultWeight", "defaultGeoCode", "customWeight", "selector"} :
        CASE c = "clusterID" -> r.ClusterID = <<>>
          [] c = "defaultWeight" -> r.DefaultWeight = 0
          [] c = "defaultGeoCode" -> r.DefaultGeoCode = <<>>
          [] c = "customWeight" ->
                \E i \in DOMAIN r.CustomWeights : r.CustomWeights[i].Weight = 0
          [] c = "selector" ->
                \E i \in DOMAIN r.CustomWeights :
                    /\ r.CustomWeights[i].Selector.MatchLabels.isNil
                    /\ r.CustomWeights[i].Selector.MatchExpressions.isNil}

ErrorOf(c) ==
    CASE c = "clusterID" -> ErrClusterID
      [] c = "defaultWeight" -> ErrDefaultWeight
      [] c = "defaultGeoCode" -> ErrDefaultGeoCode
      [] c = "customWeight" -> ErrCustomWeightZero
      [] c = "selector" -> ErrCustomWeightSelector

C2_ErrorReturnsNil ==
    (Called /\ ret.err # NoError) =>
        /\ ret.isNil
        /\ ret.endpoints = <<>>
        /\ heap = ret.before

\* an invalid policy was rejected while the DNSRecord held endpoints
C2_Witness ==
    /\ Called
    /\ ret.err = ErrClusterID
    /\ ret.before # <<>>
    /\ gateway.addresses # <<>>

\* C3: with a hostname and a DNSRecord, a strategy that is neither simple nor
\* loadbalanced makes the call fail with ErrUnknownRoutingStrategy, whatever
\* the other fields of the policy.
C3_UnknownStrategyReported ==
    (Called /\ listener.hasHostname /\ ~dnsRecord.isNil
        /\ routing.Strategy \notin {SimpleRoutingStrategy, LoadBalancedRoutingStrategy}) =>
        ret.err = ErrUnknownRoutingStrategy

HasProperty(endpoint, key, value) ==
    \E k \in DOMAIN endpoint.ProviderSpecific :
        endpoint.ProviderSpecific[k] = [Name |-> key, Value |-> value]

\* C4: with the simple strategy the output is exactly one A record named the
\* listener hostname holding all the IP addresses, if there is one, and one
\* CNAME record named the listener hostname holding all the hostname
\* addresses, if there is one; each with TTL 60, an empty setIdentifier and
\* no provider attribute.
C4_SimpleRecords ==
    (Succeeded /\ routing.Strategy = SimpleRoutingStrategy) =>
        LET ips == IPValues(gateway)
            hosts == HostValues(gateway)
            v == ret.values
        IN /\ Len(v) = (IF ips # <<>> THEN 1 ELSE 0) + (IF hosts # <<>> THEN 1 ELSE 0)
           /\ ips # <<>> =>
                 \E i \in DOMAIN v : /\ v[i].RecordType = ARecordType
                                     /\ Range(v[i].Targets) = Range(ips)
           /\ hosts # <<>> =>
                 \E i \in DOMAIN v : /\ v[i].RecordType = CNAMERecordType
                                     /\ Range(v[i].Targets) = Range(hosts)
           /\ \A i \in DOMAIN v : /\ v[i].DNSName = listener.hostname
                                  /\ v[i].RecordTTL = 60
                                  /\ v[i].SetIdentifier = <<>>
                                  /\ v[i].ProviderSpecific = <<>>

\* the default (*) alias of lbName, as the documentation describes it
IsDefaultGeoAlias(endpoint) ==
    /\ endpoint.DNSName = LbName(listener.hostname)
    /\ endpoint.SetIdentifier = <<"d","e","f","a","u","l","t">>
    /\ endpoint.RecordType = CNAMERecordType
    /\ endpoint.Targets = <<GeoLbName(gateway, listener.hostname)>>
    /\ endpoint.RecordTTL = 300
    /\ HasProperty(endpoint, "geo-code", <<"*">>)

\* C5: with the load-balanced strategy and a gateway with an address, the
\* output holds the alias of lbName with setIdentifier "default", target
\* geoLbName, TTL 300 and geo-code "*" if and only if the gateway's geo code
\* is the policy's default geo code; a gateway with only IP addresses yields
\* five records in that case and four otherwise.
C5_DefaultGeoAlias ==
    (Succeeded /\ routing.Strategy = LoadBalancedRoutingStrategy
        /\ gateway.addresses # <<>>) =>
        LET isDefault == getGeoFromLabel(gateway) = routing.DefaultGeoCode
        IN /\ (\E i \in DOMAIN ret.values : IsDefaultGeoAlias(ret.values[i])) <=> isDefault
           /\ HostValues(gateway) = <<>> =>
                 Len(ret.values) = (IF isDefault THEN 5 ELSE 4)

RECURSIVE Reach(_, _)
\* the names reached from `names` by following the targets of alias records
Reach(names, v) ==
    LET next == names \cup UNION {Range(v[i].Targets) :
                    i \in {j \in DOMAIN v : /\ v[j].RecordType = CNAMERecordType
                                            /\ v[j].DNSName \in names}}
    IN IF next = names THEN names ELSE Reach(next, v)

\* C6: the load-balanced output is traversable: from the record named the
\* listener hostname, following alias targets to the records of that name,
\* every IP address is reached as a target of an A record and every hostname
\* address as a target of a CNAME record; and every alias target that is
\* lbName, geoLbName or clusterLbName has a record in the output.
C6_Traversable ==
    (Succeeded /\ routing.Strategy = LoadBalancedRoutingStrategy
        /\ gateway.addresses # <<>>) =>
        LET v == ret.values
            reach == Reach({listener.hostname}, v)
            internal == {LbName(listener.hostname),
                         GeoLbName(gateway, listener.hostname),
                         ClusterLbName(gateway, routing, listener.hostname)}
        IN /\ \E i \in DOMAIN v : v[i].DNSName = listener.hostname
           /\ \A a \in Range(gateway.addresses) :
                 \E i \in DOMAIN v :
                     /\ v[i].DNSName \in reach
                     /\ a.Value \in Range(v[i].Targets)
                     /\ v[i].RecordType =
                           (IF a.Type = "IPAddress" THEN ARecordType ELSE CNAMERecordType)
           /\ \A i \in DOMAIN v :
                 v[i].RecordType = CNAMERecordType =>
                     \A t \in Range(v[i].Targets) \cap internal :
                         \E j \in DOMAIN v : v[j].DNSName = t

\* a wildcard listener, a gateway with an IP and a hostname address, and
\* endpoints of an earlier publication
C6_Witness ==
    /\ Succeeded
    /\ routing.Strategy = LoadBalancedRoutingStrategy
    /\ isWildCardHost(listener.hostname)
    /\ IPValues(gateway) # <<>>
    /\ HostValues(gateway) # <<>>
    /\ ret.before # <<>>

\* C7: with the load-balanced strategy and a valid policy, a gateway without
\* any address yields no record and no error, whatever the DNSRecord held.
C7_NoAddressNoRecord ==
    (Called /\ listener.hasHostname /\ ~dnsRecord.isNil
        /\ routing.Strategy = LoadBalancedRoutingStrategy
        /\ InvalidConditions(routing) = {}
        /\ gateway.addresses = <<>>) =>
        /\ ret.err = NoError
        /\ ret.endpoints = <<>>
        /\ heap = ret.before

\* a gateway that lost its addresses, with endpoints of an earlier publication
C7_Witness ==
    /\ Succeeded
    /\ routing.Strategy = LoadBalancedRoutingStrategy
    /\ gateway.addresses = <<>>
    /\ ret.before # <<>>
    /\ ret.endpoints = <<>>

Identity(endpoint) == <<endpoint.DNSName, endpoint.SetIdentifier>>

\* what the same call computes when the DNSRecord holds no endpoint
Fresh ==
    LET got == GenerateEndpoints(<<>>, gateway, [isNil |-> FALSE, endpoints |-> <<>>],
                                 listener, routing)
    IN [i \in DOMAIN got.endpoints |-> got.heap[got.endpoints[i]]]

\* C8: when the DNSRecord holds an endpoint with the identity (name,
\* setIdentifier) of a returned record, the returned record is that very
\* endpoint, its targets, type and TTL are the newly computed ones, and a
\* health check id stored on it is still there.
C8_IdentityPreserved ==
    Succeeded =>
        \A p \in DOMAIN ret.before : \A i \in DOMAIN ret.endpoints :
            Identity(ret.values[i]) = Identity(ret.before[p]) =>
                /\ ret.endpoints[i] = p
                /\ ret.values[i].Targets = Fresh[i].Targets
                /\ ret.values[i].RecordType = Fresh[i].RecordType
                /\ ret.values[i].RecordTTL = Fresh[i].RecordTTL
                /\ \A k \in DOMAIN ret.before[p].ProviderSpecific :
                      ret.before[p].ProviderSpecific[k].Name = ProviderSpecificHealthCheckID =>
                          HasProperty(heap[p], ProviderSpecificHealthCheckID,
                                      ret.before[p].ProviderSpecific[k].Value)

\* C9: a successful call returns its records in ascending order of
\* name + setIdentifier.
C9_Sorted ==
    Succeeded =>
        \A i \in 1..(Len(ret.values) - 1) :
            ~StrLess(getSetID(ret.values[i + 1]), getSetID(ret.values[i]))

\* new endpoints that the sort moved: allocated in one order, returned in another
C9_Witness ==
    /\ Succeeded
    /\ ret.before = <<>>
    /\ \E i \in 1..(Len(ret.endpoints) - 1) : ret.endpoints[i] > ret.endpoints[i + 1]
    /\ \E i \in 1..(Len(ret.values) - 1) :
          StrLess(getSetID(ret.values[i]), getSetID(ret.values[i + 1]))

\* C10: two calls in a row with the same gateway, hostname, policy and
\* DNSRecord return the same error and the same records, with the same
\* field values in the same order.
C10_Idempotent ==
    (Called /\ prevRet.op = "GenerateEndpoints") =>
        /\ ret.err = prevRet.err
        /\ ret.isNil = prevRet.isNil
        /\ ret.values = prevRet.values

\* the second of two calls that both updated endpoints of the DNSRecord
C10_Witness ==
    /\ Succeeded
    /\ prevRet.op = "GenerateEndpoints"
    /\ ret.values # <<>>
    /\ \E i \in DOMAIN ret.endpoints : ret.endpoints[i] <= Len(ret.before)
    /\ \E p \in DOMAIN ret.before : ret.before[p] # prevRet.before[p]

\* the records a call returned, in the order returned
ValuesOf(got) == [i \in DOMAIN got.endpoints |-> got.heap[got.endpoints[i]]]

\* the orders in which the elements of a list can be given
Reorderings(s) == {[i \in DOMAIN s |-> s[f[i]]] : f \in Permutations(DOMAIN s)}

\* the custom weights whose selector matches the gateway's labels
MatchingEntries(r, gw) ==
    {i \in DOMAIN r.CustomWeights :
        /\ ~LabelSelectorAsSelectorFails(r.CustomWeights[i].Selector)
        /\ SelectorMatches(r.CustomWeights[i].Selector, gw.labels)}

\* C11: the output of a successful call (the order of the records, the
\* ordered targets of each record, the weight attribute) is the same for
\* every order of the gateway's addresses and, when exactly one custom
\* weight's selector matches the gateway's labels, for every order of the
\* policy's custom weights.
C11_ReorderingInvariant ==
    Succeeded =>
        /\ \A a \in Reorderings(gateway.addresses) :
              ValuesOf(GenerateEndpoints(ret.before, [gateway EXCEPT !.addresses = a],
                                         dnsRecord, listener, routing)) = ret.values
        /\ Cardinality(MatchingEntries(routing, gateway)) = 1 =>
              \A cw \in Reorderings(routing.CustomWeights) :
                  ValuesOf(GenerateEndpoints(ret.before, gateway, dnsRecord, listener,
                                             [routing EXCEPT !.CustomWeights = cw]))
                      = ret.values

\* The weight the documentation of the policy describes: the custom weights
\* are read in order up to the first one that matches or does not compile.
ReferenceWeight(r, labelSet) ==
    LET cw == r.CustomWeights
        compiles(i) == ~LabelSelectorAsSelectorFails(cw[i].Selector)
        stops == {i \in DOMAIN cw :
                     ~compiles(i) \/ SelectorMatches(cw[i].Selector, labelSet)}
        first == CHOOSE i \in stops : \A j \in stops : i <= j
    IN IF stops = {} THEN r.DefaultWeight
       ELSE IF compiles(first) THEN cw[first].Weight
       ELSE r.DefaultWeight

\* C12: getWeight returns the weight of the first custom weight, in the order
\* of the policy, whose selector matches the gateway's labels, the default
\* weight if none matches, and the default weight if a selector that does not
\* compile comes before any match; a successful load-balanced call puts that
\* weight on every weighted record.
C12_WeightResolution ==
    /\ getWeight(routing, gateway) = ReferenceWeight(routing, gateway.labels)
    /\ (Succeeded /\ routing.Strategy = LoadBalancedRoutingStrategy) =>
          \A i \in DOMAIN ret.values :
              ret.values[i].DNSName = GeoLbName(gateway, listener.hostname) =>
                  ret.values[i].ProviderSpecific =
                      <<[Name |-> ProviderSpecificWeight,
                         Value |-> Itoa(ReferenceWeight(routing, gateway.labels))]>>

\* a call whose weighted records carry the default weight because a selector
\* that does not compile comes before one that matches
C12_Witness ==
    /\ Succeeded
    /\ routing.Strategy = LoadBalancedRoutingStrategy
    /\ Len(routing.CustomWeights) = 2
    /\ LabelSelectorAsSelectorFails(routing.CustomWeights[1].Selector)
    /\ MatchingEntries(routing, gateway) = {2}
    /\ routing.CustomWeights[2].Weight # routing.DefaultWeight
    /\ \E i \in DOMAIN ret.values :
          HasProperty(ret.values[i], ProviderSpecificWeight, Itoa(routing.DefaultWeight))

\* the hostname without its leading wildcard label
BaseOf(hostname) ==
    IF Len(hostname) >= 2 /\ SubSeq(hostname, 1, 2) = <<"*", ".">>
    THEN SubSeq(hostname, 3, Len(hostname))
    ELSE hostname

HasSuffix(s, suffix) ==
    /\ Len(s) >= Len(suffix)
    /\ SubSeq(s, Len(s) - Len(suffix) + 1, Len(s)) = suffix

\* C13: in a successful load-balanced call with a gateway address, with base
\* the listener hostname without a leading "*." label, the record named the
\* listener hostname (wildcard kept) is an alias of "klb." + base, and every
\* other record is named "klb." + base, <geo code>.klb.<base> or
\* <cluster code>.klb.<base>, without any wildcard label.
C13_WildcardNames ==
    (Succeeded /\ routing.Strategy = LoadBalancedRoutingStrategy
        /\ gateway.addresses # <<>>) =>
        LET v == ret.values
            base == BaseOf(listener.hostname)
            lbName == <<"k","l","b",".">> \o base
            geoLbName == ToLower(getGeoFromLabel(gateway)) \o <<".">> \o lbName
        IN /\ \E i \in DOMAIN v : /\ v[i].DNSName = listener.hostname
                                  /\ v[i].RecordType = CNAMERecordType
                                  /\ v[i].Targets = <<lbName>>
           /\ \A i \in DOMAIN v :
                 \/ v[i].DNSName = listener.hostname
                 \/ v[i].DNSName = lbName
                 \/ v[i].DNSName = geoLbName
                 \/ /\ v[i].RecordType = ARecordType
                    /\ HasSuffix(v[i].DNSName, <<".">> \o lbName)
                    /\ Len(v[i].DNSName) = 2 * ClusterIDLength + 2 + Len(lbName)
                    /\ "*" \notin Range(v[i].DNSName)
           /\ \A i \in DOMAIN v : \A k \in DOMAIN v[i].Targets :
                 "*" \notin Range(v[i].Targets[k])

\* a wildcard listener whose gateway has IP addresses, so that lbName,
\* geoLbName and clusterLbName all name a record
C13_Witness ==
    /\ Succeeded
    /\ routing.Strategy = LoadBalancedRoutingStrategy
    /\ listener.hostname = <<"*", ".">> \o BaseOf(listener.hostname)
    /\ IPValues(gateway) # <<>>
    /\ \E i \in DOMAIN ret.values : ret.values[i].RecordType = ARecordType
    /\ \E i \in DOMAIN ret.values : ret.values[i].DNSName = listener.hostname

CallerProperties(endpoint) ==
    SelectSeq(endpoint.ProviderSpecific,
              LAMBDA prop : prop.Name \notin {ProviderSpecificWeight, ProviderSpecificGeoCode})

IsGeoAlias(endpoint) ==
    /\ endpoint.DNSName = LbName(listener.hostname)
    /\ endpoint.SetIdentifier = getGeoFromLabel(gateway)
    /\ endpoint.RecordType = CNAMERecordType
    /\ endpoint.Targets = <<GeoLbName(gateway, listener.hostname)>>
    /\ endpoint.RecordTTL = 300

\* C15: a successful load-balanced call with a gateway address returns an
\* alias of lbName with setIdentifier geoCode, target geoLbName and TTL 300
\* that carries geo-code = geoCode when the gateway has a geo label other
\* than "default", and no geo-code property at all when the label is absent.
C15_GeoCodeAttribute ==
    (Succeeded /\ routing.Strategy = LoadBalancedRoutingStrategy
        /\ gateway.addresses # <<>>) =>
        \E i \in DOMAIN ret.values :
            /\ IsGeoAlias(ret.values[i])
            /\ IF getGeoFromLabel(gateway) # <<"d","e","f","a","u","l","t">>
               THEN HasProperty(ret.values[i], "geo-code", getGeoFromLabel(gateway))
               ELSE \A k \in DOMAIN ret.values[i].ProviderSpecific :
                       ret.values[i].ProviderSpecific[k].Name # "geo-code"

\* how many times value occurs in the list s
Occurrences(s, value) == Cardinality({i \in DOMAIN s : s[i] = value})

\* C16: in a successful load-balanced call, the records named clusterLbName
\* are one A record with TTL 60, an empty setIdentifier and all the IP
\* addresses if the gateway has an IP address, and none otherwise; the
\* records named geoLbName are one CNAME record per hostname address, and
\* one for clusterLbName if the gateway has an IP address, each with that
\* value as setIdentifier and only target, TTL 60 and the weight of the
\* gateway as weight property.
C16_WeightedLayer ==
    (Succeeded /\ routing.Strategy = LoadBalancedRoutingStrategy) =>
        LET v == ret.values
            ips == IPValues(gateway)
            clusterLbName == ClusterLbName(gateway, routing, listener.hostname)
            geoLbName == GeoLbName(gateway, listener.hostname)
            values == IF ips # <<>> THEN HostValues(gateway) \o <<clusterLbName>>
                      ELSE HostValues(gateway)
            cluster == {i \in DOMAIN v : v[i].DNSName = clusterLbName}
            weighted == {i \in DOMAIN v : v[i].DNSName = geoLbName}
        IN /\ Cardinality(cluster) = (IF ips # <<>> THEN 1 ELSE 0)
           /\ \A i \in cluster : /\ v[i].RecordType = ARecordType
                                 /\ v[i].Targets = ips
                                 /\ v[i].RecordTTL = 60
                                 /\ v[i].SetIdentifier = <<>>
           /\ Cardinality(weighted) = Len(values)
           /\ \A i \in weighted :
                 /\ v[i].RecordType = CNAMERecordType
                 /\ v[i].SetIdentifier \in Range(values)
                 /\ v[i].Targets = <<v[i].SetIdentifier>>
                 /\ v[i].RecordTTL = 60
                 /\ HasProperty(v[i], "weight", Itoa(getWeight(routing, gateway)))
           /\ \A value \in Range(values) :
                 Cardinality({i \in weighted : v[i].SetIdentifier = value})
                     = Occurrences(values, value)

\* a gateway with an IP and a hostname address whose weighted records are
\* endpoints of an earlier publication
C16_Witness ==
    /\ Succeeded
    /\ routing.Strategy = LoadBalancedRoutingStrategy
    /\ IPValues(gateway) # <<>>
    /\ HostValues(gateway) # <<>>
    /\ \E i \in DOMAIN ret.values :
          /\ ret.values[i].DNSName = GeoLbName(gateway, listener.hostname)
          /\ ret.endpoints[i] <= Len(ret.before)

\* "-" is the first character of the decimal text of a negative integer
IsPositiveText(text) == text # <<>> /\ text[1] # "-" /\ text # <<"0">>

\* C17: a load-balanced policy that Build or GenerateEndpoints accepted has a
\* default weight and custom weights greater than zero, and every weight
\* property of the records returned is the text of a positive integer.
C17_PositiveWeights ==
    (ret.op \in {"Build", "GenerateEndpoints"} /\ ret.err = NoError
        /\ routing.Strategy = LoadBalancedRoutingStrategy) =>
        /\ routing.DefaultWeight > 0
        /\ \A i \in DOMAIN routing.CustomWeights : routing.CustomWeights[i].Weight > 0
        /\ \A i \in DOMAIN ret.values :
              \A k \in DOMAIN ret.values[i].ProviderSpecific :
                  ret.values[i].ProviderSpecific[k].Name = "weight" =>
                      IsPositiveText(ret.values[i].ProviderSpecific[k].Value)

\* C18: the records of a successful call have pairwise different identities
\* (name, setIdentifier), and no endpoint object is returned at two positions.
C18_UniqueRecords ==
    Succeeded =>
        \A i, j \in DOMAIN ret.values :
            i < j => /\ Identity(ret.values[i]) # Identity(ret.values[j])
                     /\ ret.endpoints[i] # ret.endpoints[j]

\* what the DNSRecord holds once the records of Fresh are stored in it
FreshlyPublished ==
    /\ ret.before = Fresh
    /\ dnsRecord.endpoints = [i \in DOMAIN Fresh |-> i]

\* C19: with the gateway, the hostname and the policy unchanged, a call that
\* is given the records of the call before it, the first call being given
\* none, returns records with the field values the first call returned.
C19_Converges ==
    (Succeeded /\ FreshlyPublished) => ret.values = Fresh

=============================================================================
